---- MODULE Spec2Model ----
(***************************************************************************)
(* DataImporter: CSV files are loaded into staging tables                  *)
(* (DatabaseImporter.insert_data) and staging tables are synchronised      *)
(* into warehouse tables with hash-based row versioning                    *)
(* (DataMigrator.process_table / run_migration).                           *)
(***************************************************************************)
EXTENDS Integers, Sequences, FiniteSets, TLC

(***************************************************************************)
(* Bounds of the model.                                                    *)
(***************************************************************************)
\* longest result of the staging SELECT of one process_table call
MaxStgRows == 2
\* process_table calls in one behaviour
MaxCalls == 2
\* insert_data calls in one behaviour
MaxLoads == 2

(***************************************************************************)
(* Data.                                                                   *)
(***************************************************************************)
\* staging table names, as character sequences: <region>_<entity>; the two
\* tables share their entity, hence their warehouse table
StgNames ==
    { <<"R", "1", "_", "E">>, <<"R", "2", "_", "E">> }

\* len(df) of the files loaded: around the batch size and the threshold
DfLens == { 0, 1, 10000, 10001, 999999, 1000000 }

\* staging rows: tuples of column values
StgRowValues ==
    { <<"ab", "c">>, <<"a", "bd">> }

\* SQL NULL in a DateTime column (timestamps are naturals)
NULL == -1

\* SQL NULL in the RegionCode column (region codes are character sequences)
NoRegion == <<"NULL">>

\* sequences over S of length at most n
RECURSIVE SeqUpTo(_, _)
SeqUpTo(S, n) ==
    IF n = 0 THEN { <<>> }
    ELSE LET shorter == SeqUpTo(S, n - 1)
         IN  shorter \cup { Append(s, e) : s \in { t \in shorter : Len(t) = n - 1 }, e \in S }

\* the elements of a sequence
Range(s) == { s[k] : k \in 1..Len(s) }

\* sequences without repetition
IsInjective(s) == \A a, b \in 1..Len(s) : s[a] = s[b] => a = b

(***************************************************************************)
(* Pure functions of DataMigrator.                                         *)
(***************************************************************************)
\* the first column only
row_data_first(row) == IF Len(row) = 0 THEN "" ELSE Head(row)

RECURSIVE row_data_separated(_)
\* the string forms joined with a separator: '|'.join(str(col) for col in row)
row_data_separated(row) ==
    IF Len(row) = 0 THEN ""
    ELSE IF Len(row) = 1 THEN Head(row)
    ELSE Head(row) \o "|" \o row_data_separated(Tail(row))

\* ''.join(str(col) for col in row)
RECURSIVE row_data(_)
row_data(row) ==
    IF Len(row) = 0 THEN "" ELSE Head(row) \o row_data(Tail(row))

\* hashlib.sha256(...).hexdigest(): a digest, taken to be collision free
sha256(s) == <<"sha256", s>>

hash_row(row) == sha256(row_data(row))

\* position of the first '_' of a name, 0 when there is none
RECURSIVE FirstUnderscore(_, _)
FirstUnderscore(name, k) ==
    IF k > Len(name) THEN 0
    ELSE IF name[k] = "_" THEN k
    ELSE FirstUnderscore(name, k + 1)

\* stg_table_name.split('_', 1)
region_code(name) == SubSeq(name, 1, FirstUnderscore(name, 1) - 1)

dwh_table_name(name) == SubSeq(name, FirstUnderscore(name, 1) + 1, Len(name))

DwhNames == { dwh_table_name(n) : n \in StgNames }

(***************************************************************************)
(* State.                                                                  *)
(***************************************************************************)
VARIABLES
    dwh,            \* committed warehouse database: table name -> [exists, rows]
    dwh_metadata,   \* self.dwh_metadata: table name -> [present, hasDefault, RegionCode]
    session_dwh,    \* rows of the warehouse table as seen inside the open transaction
    pc,             \* position of run_migration / process_table
    tables,         \* result of get_staging_tables
    ti,             \* index of run_migration's for loop
    stg_rows,       \* result of the staging SELECT
    ri,             \* index of process_table's for loop
    clock,          \* datetime.now(): every reading is later than the one before
    log,            \* the process_table calls so far: [tbl, res, pre, staged, ensured,
                    \* ddl]: ensured when ensure_dwh_table returned, ddl its statements, pre the
                    \* table before the call, staged the set of staging rows of a
                    \* committed call
    runStart,       \* length of log when the current run_migration began
    runResult       \* "none", "running", "done", "raised"

syncVars ==
    <<dwh, dwh_metadata, session_dwh, pc, tables, ti, stg_rows, ri, clock,
      log, runStart, runResult>>

VARIABLES
    stg_db,         \* committed staging database: table name -> [exists, rows]
    txn_rows,       \* rows of the destination table as seen inside the open transaction
    lpc,            \* position of insert_data
    start,          \* start of the next batch (the loop variable of the batched path)
    load,           \* the last insert_data call: [tbl, n, pre, ddl, path, chunks, bulk, res]
    nloads          \* number of insert_data calls so far

loadVars == <<stg_db, txn_rows, lpc, start, load, nloads>>

VARIABLES
    series,         \* the column handed to infer_sql_type: [dtype, values]
    sql_type,       \* what infer_sql_type returned for it
    ipc             \* position of infer_data_types

inferVars == <<series, sql_type, ipc>>

VARIABLES
    directory,      \* the entries of the import directory, in os.listdir order
    archive_dir,    \* the entries of its Archive subdirectory
    eligible_files, \* what list_eligible_files returned
    fi,             \* position of main's loop in eligible_files
    mpc,            \* position of main
    staged,         \* the staging tables with committed rows: [table, file]
    loads,          \* the files whose load was committed, in order, over all runs
    failures,       \* the failures so far: [stage, file, raised]
    nruns,          \* number of runs of main started
    mainResult,     \* "none", "running", "done", "raised"
    migrations      \* number of run_migration calls started

mainVars ==
    <<directory, archive_dir, eligible_files, fi, mpc, staged, loads, failures,
      nruns, mainResult, migrations>>

VARIABLES
    hash_calls      \* the calls of hash_row so far: [row, hash]

hashVars == <<hash_calls>>

vars == <<syncVars, loadVars, inferVars, mainVars, hashVars>>

EmptyMetadata ==
    [n \in DwhNames |-> [present |-> FALSE, hasDefault |-> FALSE, RegionCode |-> NoRegion]]

InitSync ==
    /\ dwh = [n \in DwhNames |-> [exists |-> FALSE, rows |-> <<>>, columns |-> <<>>]]
    /\ dwh_metadata = EmptyMetadata
    /\ session_dwh = <<>>
    /\ pc = "idle"
    /\ tables = <<>>
    /\ ti = 1
    /\ stg_rows = <<>>
    /\ ri = 1
    /\ clock = 0
    /\ log = <<>>
    /\ runStart = 0
    /\ runResult = "none"

\* no insert_data call yet
NoLoad ==
    [tbl |-> <<>>, n |-> 0, pre |-> [exists |-> FALSE, rows |-> <<>>], ddl |-> <<>>,
     path |-> "none", chunks |-> 0, bulk |-> 0, res |-> "none"]

InitLoad ==
    /\ stg_db = [n \in StgNames |-> [exists |-> FALSE, rows |-> <<>>]]
    /\ txn_rows = <<>>
    /\ lpc = "idle"
    /\ start = 0
    /\ load = NoLoad
    /\ nloads = 0

\* no column looked at yet
NoSeries == [dtype |-> "none", values |-> <<>>]

NoType == [kind |-> "none"]

InitInfer ==
    /\ series = NoSeries
    /\ sql_type = NoType
    /\ ipc = "idle"

InitMain ==
    /\ directory = <<>>
    /\ archive_dir = {}
    /\ eligible_files = <<>>
    /\ fi = 1
    /\ mpc = "idle"
    /\ staged = {}
    /\ loads = <<>>
    /\ failures = <<>>
    /\ nruns = 0
    /\ mainResult = "none"
    /\ migrations = 0

InitHash == hash_calls = <<>>

Init == InitSync /\ InitLoad /\ InitInfer /\ InitMain /\ InitHash

(***************************************************************************)
(* DataMigrator.process_table: the statements it sends to the warehouse.   *)
(***************************************************************************)
\* the lookup left out: every staging row is taken to be new
existing_row_never(rows, h) == FALSE

\* select(dwh_table).where(RowHash == row_hash and IsActive == 1).first()
existing_row(rows, h) ==
    \E k \in 1..Len(rows) : rows[k].RowHash = h /\ rows[k].IsActive = 1

\* the new row inserted with its active flag cleared
new_row_inactive(meta, stg_row, h, now) ==
    [cols       |-> stg_row,
     RegionCode |-> IF meta.hasDefault THEN meta.RegionCode ELSE NoRegion,
     RowHash    |-> h,
     IsActive   |-> 0,
     ValidFrom  |-> now,
     ValidTo    |-> NULL]

\* the row of dwh_table.insert(): RegionCode is not among the values given,
\* so it is the column default of the Table object, NULL when it has none
new_row(meta, stg_row, h, now) ==
    [cols       |-> stg_row,
     RegionCode |-> IF meta.hasDefault THEN meta.RegionCode ELSE NoRegion,
     RowHash    |-> h,
     IsActive   |-> 1,
     ValidFrom  |-> now,
     ValidTo    |-> NULL]

\* the update with its comparison reversed (RowHash == row_hash)
deactivate_same_hash(rows, h, now) ==
    [k \in 1..Len(rows) |->
        IF rows[k].RowHash = h
        THEN [rows[k] EXCEPT !.IsActive = 0, !.ValidTo = now]
        ELSE rows[k]]

\* the update scoped by region as well: only the rows of the region of the
\* row just inserted are deactivated
deactivate_in_region(rows, h, now) ==
    [k \in 1..Len(rows) |->
        IF rows[k].RowHash # h /\ rows[k].RegionCode = rows[Len(rows)].RegionCode
        THEN [rows[k] EXCEPT !.IsActive = 0, !.ValidTo = now]
        ELSE rows[k]]

\* the update writing ValidFrom too
deactivate_restamps(rows, h, now) ==
    [k \in 1..Len(rows) |->
        IF rows[k].RowHash # h
        THEN [rows[k] EXCEPT !.IsActive = 0, !.ValidTo = now, !.ValidFrom = now]
        ELSE rows[k]]

\* the update without ValidTo among its values
deactivate_flag_only(rows, h, now) ==
    [k \in 1..Len(rows) |->
        IF rows[k].RowHash # h
        THEN [rows[k] EXCEPT !.IsActive = 0]
        ELSE rows[k]]

\* dwh_table.update().where(RowHash != row_hash).values(IsActive=0, ValidTo=now)
deactivate(rows, h, now) ==
    [k \in 1..Len(rows) |->
        IF rows[k].RowHash # h
        THEN [rows[k] EXCEPT !.IsActive = 0, !.ValidTo = now]
        ELSE rows[k]]

\* session_dwh.commit(): the transaction's rows become the committed rows
commit(committed, working) == working

\* the except branch committing instead of rolling back
rollback_keeps_writes(committed, working) == working

\* a rollback that reaches behind the transaction and empties the table
rollback_drops_committed(committed, working) == <<>>

\* session_dwh.rollback(): the committed rows stay
rollback(committed, working) == committed

\* the existence check answering "absent" for every table
has_table_never(db, d) == FALSE

\* inspector.has_table(dwh_table_name): existence by name in the warehouse
has_table(db, d) == db[d].exists

\* the statements ensure_dwh_table sends: CREATE TABLE when the name is absent
ensure_dwh_table_ddl(db, name) ==
    IF has_table(db, dwh_table_name(name)) THEN <<>> ELSE <<"create">>

\* what the warehouse holds when ensure_dwh_table returns: a table that is
\* absent is created empty with the columns of the staging table `name`
ensure_dwh_table(db, name) ==
    IF has_table(db, dwh_table_name(name))
    THEN db
    ELSE [db EXCEPT ![dwh_table_name(name)] =
                        [exists |-> TRUE, rows |-> <<>>, columns |-> name]]

\* self.dwh_metadata after ensure_dwh_table and Table(..., autoload_with=...):
\* a table created by this instance keeps the Column defaults of its creator,
\* a table found in the database is reflected and has no Python-side default
table_metadata(md, db, name) ==
    LET d == dwh_table_name(name)
    IN  IF md[d].present THEN md
        ELSE IF db[d].exists
        THEN [md EXCEPT ![d] = [present |-> TRUE, hasDefault |-> FALSE, RegionCode |-> NoRegion]]
        ELSE [md EXCEPT ![d] = [present |-> TRUE, hasDefault |-> TRUE, RegionCode |-> region_code(name)]]

\* the call of process_table that is running
cur == tables[ti]

curDwh == dwh_table_name(cur)

\* run_migration's except branch swallowing the error: the loop goes on
run_after_raise_continue(i) ==
    [pc |-> "loop", runResult |-> "running", ti |-> i + 1]

\* run_migration's except branch: log and re-raise, the loop is left
run_after_raise(i) ==
    [pc |-> "idle", runResult |-> "raised", ti |-> i]

(***************************************************************************)
(* Actions.                                                                *)
(***************************************************************************)
\* the listings of the staging catalog: no table is listed twice
Listings ==
    { l \in SeqUpTo(StgNames, Cardinality(StgNames)) : IsInjective(l) }

\* main constructs a DataMigrator and calls run_migration, which lists the
\* staging tables
RunMigration(listing) ==
    /\ pc = "idle"
    /\ Len(log) + Len(listing) <= MaxCalls
    /\ tables' = listing
    /\ ti' = 1
    /\ dwh_metadata' = EmptyMetadata
    /\ runStart' = Len(log)
    /\ runResult' = "running"
    /\ stg_rows' = <<>>
    /\ ri' = 1
    /\ pc' = "loop"
    /\ UNCHANGED <<dwh, session_dwh, clock, log>>
    /\ UNCHANGED <<loadVars, inferVars, mainVars, hashVars>>

\* process_table(table[0]) up to the opening of the sessions
BeginTable ==
    /\ pc = "loop"
    /\ ti <= Len(tables)
    /\ dwh' = ensure_dwh_table(dwh, cur)
    /\ dwh_metadata' = table_metadata(dwh_metadata, dwh, cur)
    /\ session_dwh' = dwh'[curDwh].rows
    /\ log' = Append(log, [tbl |-> cur, staged |-> {}, res |-> "running",
                           pre |-> dwh'[curDwh].rows, ensured |-> TRUE,
                           ddl |-> ensure_dwh_table_ddl(dwh, cur)])
    /\ stg_rows' = <<>>
    /\ ri' = 1
    /\ pc' = "fetch"
    /\ UNCHANGED <<tables, ti, clock, runStart, runResult>>
    /\ UNCHANGED <<loadVars, inferVars, mainVars, hashVars>>

\* stg_rows = session_stg.execute(select(stg_table)).fetchall()
Fetch(rows) ==
    /\ pc = "fetch"
    /\ stg_rows' = rows
    /\ ri' = 1
    /\ pc' = "row"
    /\ UNCHANGED <<dwh, dwh_metadata, session_dwh, tables, ti, clock, log, runStart, runResult>>
    /\ UNCHANGED <<loadVars, inferVars, mainVars, hashVars>>

\* a staging row whose hash has an active warehouse row: nothing is done
RowUnchanged ==
    /\ pc = "row"
    /\ ri <= Len(stg_rows)
    /\ existing_row(session_dwh, hash_row(stg_rows[ri]))
    /\ ri' = ri + 1
    /\ UNCHANGED <<dwh, dwh_metadata, session_dwh, pc, tables, ti, stg_rows, clock,
                   log, runStart, runResult>>
    /\ UNCHANGED <<loadVars, inferVars, mainVars, hashVars>>

\* a staging row whose hash has no active warehouse row: the insert
RowInsert ==
    /\ pc = "row"
    /\ ri <= Len(stg_rows)
    /\ ~existing_row(session_dwh, hash_row(stg_rows[ri]))
    /\ session_dwh' = Append(session_dwh,
                             new_row(dwh_metadata[curDwh], stg_rows[ri],
                                     hash_row(stg_rows[ri]), clock))
    /\ clock' = clock + 1
    /\ pc' = "deactivate"
    /\ UNCHANGED <<dwh, dwh_metadata, tables, ti, stg_rows, ri, log, runStart, runResult>>
    /\ UNCHANGED <<loadVars, inferVars, mainVars, hashVars>>

\* ... and the update that follows the insert
RowDeactivate ==
    /\ pc = "deactivate"
    /\ session_dwh' = deactivate(session_dwh, hash_row(stg_rows[ri]), clock)
    /\ clock' = clock + 1
    /\ ri' = ri + 1
    /\ pc' = "row"
    /\ UNCHANGED <<dwh, dwh_metadata, tables, ti, stg_rows, log, runStart, runResult>>
    /\ UNCHANGED <<loadVars, inferVars, mainVars, hashVars>>

\* session_dwh.commit() after the last row; run_migration goes on
Commit ==
    /\ pc = "row"
    /\ ri > Len(stg_rows)
    /\ dwh' = [dwh EXCEPT ![curDwh].rows = commit(dwh[curDwh].rows, session_dwh)]
    /\ session_dwh' = <<>>
    /\ log' = [log EXCEPT ![Len(log)].res = "ok", ![Len(log)].staged = Range(stg_rows)]
    /\ ti' = ti + 1
    /\ pc' = "loop"
    /\ UNCHANGED <<dwh_metadata, tables, stg_rows, ri, clock, runStart, runResult>>
    /\ UNCHANGED <<loadVars, inferVars, mainVars, hashVars>>

\* ensure_dwh_table or the reflection of the tables raises, before the try
\* block: nothing to roll back, the error leaves process_table and
\* run_migration re-raises it
EnsureFail ==
    /\ pc = "loop"
    /\ ti <= Len(tables)
    /\ log' = Append(log, [tbl |-> cur, staged |-> {}, res |-> "raised",
                           pre |-> dwh[curDwh].rows, ensured |-> FALSE,
                           ddl |-> <<>>])
    /\ pc' = run_after_raise(ti).pc
    /\ runResult' = run_after_raise(ti).runResult
    /\ ti' = run_after_raise(ti).ti
    /\ UNCHANGED <<dwh, dwh_metadata, session_dwh, tables, stg_rows, ri, clock, runStart>>
    /\ UNCHANGED <<loadVars, inferVars, mainVars, hashVars>>

\* a statement of the try block (the staging SELECT, the lookup, the insert,
\* the update or the commit) raises SQLAlchemyError: rollback, re-raise, and
\* run_migration re-raises
Fail ==
    /\ pc \in {"fetch", "row", "deactivate"}
    /\ dwh' = [dwh EXCEPT ![curDwh].rows = rollback(dwh[curDwh].rows, session_dwh)]
    /\ session_dwh' = <<>>
    /\ log' = [log EXCEPT ![Len(log)].res = "raised"]
    /\ pc' = run_after_raise(ti).pc
    /\ runResult' = run_after_raise(ti).runResult
    /\ ti' = run_after_raise(ti).ti
    /\ UNCHANGED <<dwh_metadata, tables, stg_rows, ri, clock, runStart>>
    /\ UNCHANGED <<loadVars, inferVars, mainVars, hashVars>>

\* the for loop of run_migration is exhausted
RunDone ==
    /\ pc = "loop"
    /\ ti > Len(tables)
    /\ runResult' = "done"
    /\ pc' = "idle"
    /\ UNCHANGED <<dwh, dwh_metadata, session_dwh, tables, ti, stg_rows, ri, clock,
                   log, runStart>>
    /\ UNCHANGED <<loadVars, inferVars, mainVars, hashVars>>

NextSync ==
    \/ \E listing \in Listings : RunMigration(listing)
    \/ BeginTable
    \/ \E rows \in SeqUpTo(StgRowValues, MaxStgRows) : Fetch(rows)
    \/ RowUnchanged
    \/ RowInsert
    \/ RowDeactivate
    \/ Commit
    \/ EnsureFail
    \/ Fail
    \/ RunDone

SpecSync == Init /\ [][NextSync]_vars

(***************************************************************************)
(* Properties of the synchronisation (SpecSync).                           *)
(***************************************************************************)
\* the positions of the active rows of a table with a given hash
ActiveWithHash(rows, h) ==
    { k \in 1..Len(rows) : rows[k].RowHash = h /\ rows[k].IsActive = 1 }

\* the positions of the active rows of a table
ActiveRows(rows) == { k \in 1..Len(rows) : rows[k].IsActive = 1 }

\* the hashes of the rows of a table
HashesOf(rows) == { rows[k].RowHash : k \in 1..Len(rows) }

\* the committed rows of the warehouse table of a staging table
Committed(stg) == dwh[dwh_table_name(stg)].rows

\* the last call of process_table, when there is one
LastCall == log[Len(log)]

\* the hash of the staging row at the head of process_table's loop
RowHashAtLoop == hash_row(stg_rows[ri])

\* a step in which the call of process_table that is running raises
Raises == pc \in {"fetch", "row", "deactivate"} /\ pc' = "idle"

\* C1: in every committed state of a warehouse table, at most one row with
\* a given RowHash has IsActive = 1, also when the staging table held the
\* same row more than once in one call.
C1_AtMostOneActivePerHash ==
    \A n \in DwhNames :
        \A h \in HashesOf(dwh[n].rows) :
            Cardinality(ActiveWithHash(dwh[n].rows, h)) <= 1

\* a committed call whose staging rows were twice the same row, into a table
\* that had no active row of that hash
C1_Witness ==
    /\ Len(log) >= 1
    /\ LastCall.res = "ok"
    /\ pc = "loop"
    /\ Len(stg_rows) = 2
    /\ stg_rows[1] = stg_rows[2]
    /\ ActiveWithHash(LastCall.pre, hash_row(stg_rows[1])) = {}
    /\ Cardinality(ActiveWithHash(Committed(LastCall.tbl), hash_row(stg_rows[1]))) = 1

\* the calls j < k are successive committed calls on one warehouse table,
\* the first from the empty table with staging = {R1}, the second with
\* staging = {R1, R2}, R1 and R2 of different hashes
TwoCalls(j, k) ==
    /\ j < k
    /\ k = Len(log)
    /\ dwh_table_name(log[j].tbl) = dwh_table_name(log[k].tbl)
    /\ \A m \in (j + 1)..(k - 1) : dwh_table_name(log[m].tbl) # dwh_table_name(log[k].tbl)
    /\ log[j].res = "ok"
    /\ log[k].res = "ok"
    /\ log[j].pre = <<>>
    /\ Cardinality(log[j].staged) = 1
    /\ Cardinality(log[k].staged) = 2
    /\ log[j].staged \subseteq log[k].staged
    /\ \A r1, r2 \in log[k].staged : r1 # r2 => hash_row(r1) # hash_row(r2)

\* C2: from an empty warehouse table, after synchronize with staging = {R1}
\* and then with staging = {R1, R2}, the warehouse table has exactly one
\* active row and no hash has two active rows.
C2_Convergence ==
    \A j, k \in 1..Len(log) :
        TwoCalls(j, k) =>
            /\ Cardinality(ActiveRows(Committed(log[k].tbl))) = 1
            /\ \A h \in HashesOf(Committed(log[k].tbl)) :
                   Cardinality(ActiveWithHash(Committed(log[k].tbl), h)) <= 1

\* the two calls have happened, the second having read R2 and then R1
C2_Witness ==
    \E j, k \in 1..Len(log) :
        /\ TwoCalls(j, k)
        /\ pc = "loop"
        /\ Len(stg_rows) = 2
        /\ stg_rows[2] \in log[j].staged
        /\ Len(Committed(log[k].tbl)) = 3

\* C3: the committed rows of a warehouse table change only by the one commit
\* that follows the last staging row; a call that raises leaves the
\* committed rows as they were before the call, and the error is re-raised.
C3_Step ==
    /\ \A n \in DwhNames :
           dwh'[n].rows # dwh[n].rows =>
               /\ pc = "row"
               /\ ri > Len(stg_rows)
               /\ n = curDwh
               /\ LastCall.res = "running"
               /\ log'[Len(log)].res = "ok"
    /\ Raises =>
           /\ dwh'[curDwh].rows = LastCall.pre
           /\ log'[Len(log)].res = "raised"
           /\ runResult' = "raised"

C3_PerTableAtomicity == [][C3_Step]_vars

\* a call that raised at its second staging row, after the insert and the
\* deactivation for the first one, into a table that stays empty
C3_Witness ==
    /\ pc = "idle"
    /\ runResult = "raised"
    /\ Len(log) >= 1
    /\ LastCall.res = "raised"
    /\ LastCall.pre = <<>>
    /\ Len(stg_rows) = 2
    /\ ri = 2
    /\ Committed(LastCall.tbl) = <<>>

\* C4: for a staging row whose hash has no active warehouse row, exactly one
\* row is inserted, with that RowHash, IsActive = 1, ValidFrom = now and
\* ValidTo absent; the update that follows leaves every row that was active
\* with another hash with IsActive = 0 and ValidTo = now (now being the
\* reading of the clock by the statement).
C4_Step ==
    /\ ( /\ pc = "row"
         /\ ri <= Len(stg_rows)
         /\ ActiveWithHash(session_dwh, RowHashAtLoop) = {}
         /\ ~Raises )
       => /\ Len(session_dwh') = Len(session_dwh) + 1
          /\ SubSeq(session_dwh', 1, Len(session_dwh)) = session_dwh
          /\ session_dwh'[Len(session_dwh')].cols = stg_rows[ri]
          /\ session_dwh'[Len(session_dwh')].RowHash = RowHashAtLoop
          /\ session_dwh'[Len(session_dwh')].IsActive = 1
          /\ session_dwh'[Len(session_dwh')].ValidFrom = clock
          /\ session_dwh'[Len(session_dwh')].ValidTo = NULL
          /\ pc' = "deactivate"
    /\ ( pc = "deactivate" /\ ~Raises )
       => /\ Len(session_dwh') = Len(session_dwh)
          /\ \A k \in 1..Len(session_dwh) :
                 ( session_dwh[k].IsActive = 1 /\ session_dwh[k].RowHash # RowHashAtLoop )
                 => ( session_dwh'[k].IsActive = 0 /\ session_dwh'[k].ValidTo = clock )
          /\ ActiveWithHash(session_dwh', RowHashAtLoop) = { Len(session_dwh) }

C4_InsertThenDeactivate == [][C4_Step]_vars

\* the insert and the update have run for a row that superseded an active
\* row of another hash
C4_Witness ==
    /\ pc = "row"
    /\ ri >= 2
    /\ Len(session_dwh) >= 2
    /\ session_dwh[Len(session_dwh)].IsActive = 1
    /\ session_dwh[Len(session_dwh)].RowHash = hash_row(stg_rows[ri - 1])
    /\ session_dwh[Len(session_dwh)].ValidFrom = clock - 2
    /\ \E k \in 1..(Len(session_dwh) - 1) :
           /\ session_dwh[k].IsActive = 0
           /\ session_dwh[k].ValidTo = clock - 1
           /\ k <= Len(LastCall.pre)
           /\ LastCall.pre[k].IsActive = 1

\* every one of the staging rows has an active row in the table
AllActiveBefore(rows, table) ==
    \A r \in Range(rows) : ActiveWithHash(table, hash_row(r)) # {}

\* C5: for a staging row whose hash has an active warehouse row, no insert
\* and no update is performed; a call whose staging table is empty, or all
\* of whose row hashes are active already, leaves the warehouse table
\* unchanged.
C5_Step ==
    /\ ( /\ pc = "row"
         /\ ri <= Len(stg_rows)
         /\ ActiveWithHash(session_dwh, RowHashAtLoop) # {}
         /\ ~Raises )
       => /\ session_dwh' = session_dwh
          /\ dwh' = dwh
          /\ pc' = "row"
          /\ ri' = ri + 1
    /\ ( /\ pc = "row"
         /\ log'[Len(log)].res = "ok"
         /\ AllActiveBefore(stg_rows, LastCall.pre) )
       => dwh'[curDwh].rows = LastCall.pre

C5_NoActionWhenActive == [][C5_Step]_vars

\* a committed call whose staging rows all had an active row already
C5_Witness ==
    /\ Len(log) >= 1
    /\ LastCall.res = "ok"
    /\ pc = "loop"
    /\ stg_rows # <<>>
    /\ LastCall.pre # <<>>
    /\ AllActiveBefore(stg_rows, LastCall.pre)
    /\ Committed(LastCall.tbl) = LastCall.pre

\* ValidTo is absent exactly in the active rows
ValidToIffInactive(rows) ==
    \A k \in 1..Len(rows) : (rows[k].ValidTo = NULL) <=> (rows[k].IsActive = 1)

\* C6: in every committed state a row has ValidTo absent iff IsActive = 1;
\* a committed row is deactivated, and its ValidTo set, by the commit that
\* also brings the insert of a row of another hash that supersedes it.
C6_Step ==
    \A n \in DwhNames :
        \A k \in 1..Len(dwh[n].rows) :
            ( dwh[n].rows[k].IsActive = 1 /\ dwh'[n].rows[k].IsActive = 0 )
            => /\ dwh'[n].rows[k].ValidTo # NULL
               /\ \E j \in (Len(dwh[n].rows) + 1)..Len(dwh'[n].rows) :
                      /\ dwh'[n].rows[j].RowHash # dwh[n].rows[k].RowHash
                      /\ dwh'[n].rows[j].ValidFrom <= dwh'[n].rows[k].ValidTo

C6_ValidToIffInactive ==
    /\ [](\A n \in DwhNames : ValidToIffInactive(dwh[n].rows))
    /\ [][C6_Step]_vars

\* a commit has deactivated a row that was active and committed
C6_Witness ==
    /\ Len(log) >= 1
    /\ LastCall.res = "ok"
    /\ \E k \in 1..Len(LastCall.pre) :
           /\ LastCall.pre[k].IsActive = 1
           /\ LastCall.pre[k].ValidTo = NULL
           /\ Committed(LastCall.tbl)[k].IsActive = 0
           /\ Committed(LastCall.tbl)[k].ValidTo # NULL
    /\ \E j \in 1..Len(Committed(LastCall.tbl)) :
           /\ Committed(LastCall.tbl)[j].IsActive = 1
           /\ Committed(LastCall.tbl)[j].ValidTo = NULL

\* the calls of process_table of the current run_migration
called == SubSeq(log, runStart + 1, Len(log))

\* C7: run_migration calls process_table once per staging table, one at a
\* time, in listing order; the first call that raises makes run_migration
\* raise, and no later table is processed.
C7_RunMigrationOrder ==
    /\ Len(called) <= Len(tables)
    /\ \A k \in 1..Len(called) : called[k].tbl = tables[k]
    /\ \A k \in 1..(Len(called) - 1) : called[k].res = "ok"
    /\ \A k \in 1..Len(called) :
           called[k].res = "raised" => ( runResult = "raised" /\ pc = "idle" )
    /\ runResult = "done" =>
           /\ Len(called) = Len(tables)
           /\ \A k \in 1..Len(called) : called[k].res = "ok"
    /\ runResult = "raised" =>
           /\ called # <<>>
           /\ called[Len(called)].res = "raised"

\* the first of two listed tables raised and the second was never processed
C7_Witness ==
    /\ runResult = "raised"
    /\ Len(tables) = 2
    /\ Len(called) = 1
    /\ called[1].tbl = tables[1]

(***************************************************************************)
(* DatabaseImporter.insert_data.  The rows of a staging table are kept as  *)
(* runs [load, n]: n rows written by the load-th call of insert_data.      *)
(***************************************************************************)
\* if len(df) < 1000000
bulk_threshold == 1000000

\* batch_size = 10000
batch_size == 10000

Min(a, b) == IF a < b THEN a ELSE b

\* the threshold test with <= for <
load_path_inclusive(n) == IF n <= bulk_threshold THEN "batched" ELSE "bulk"

\* the branch insert_data takes for a DataFrame of n rows
load_path(n) == IF n < bulk_threshold THEN "batched" ELSE "bulk"

\* the drop left out of create_table
drop_all_keeps(tbl) == tbl

\* metadata.drop_all(self.engine, checkfirst=True): the table is dropped
\* when it exists
drop_all(tbl) ==
    IF tbl.exists THEN [exists |-> FALSE, rows |-> <<>>] ELSE tbl

\* metadata.create_all(self.engine): the table is created when it is absent
create_all(tbl) ==
    IF tbl.exists THEN tbl ELSE [exists |-> TRUE, rows |-> <<>>]

\* n rows of load id appended to the rows of a table
append_rows(rows, id, n) ==
    IF n = 0 THEN rows
    ELSE IF rows # <<>> /\ rows[Len(rows)].load = id
    THEN [rows EXCEPT ![Len(rows)].n = @ + n]
    ELSE Append(rows, [load |-> id, n |-> n])

\* df[start:end].to_sql(table_name, connection, if_exists='append')
to_sql(rows, id, from, n) ==
    append_rows(rows, id, Min(from + batch_size, n) - from)

\* the except branch of the batched path committing what was inserted
transaction_rollback_keeps(committed, working) == working

\* transaction.rollback() / connection.rollback()
transaction_rollback(committed, working) == committed

\* insert_data is called by main for a parsed file: connect() and the type
\* inference of create_table have not touched the database yet
BeginLoad(t, n) ==
    /\ lpc = "idle"
    /\ nloads < MaxLoads
    /\ nloads' = nloads + 1
    /\ load' = [tbl |-> t, n |-> n, pre |-> stg_db[t], ddl |-> <<>>,
                path |-> "none", chunks |-> 0, bulk |-> 0, res |-> "running"]
    /\ txn_rows' = <<>>
    /\ start' = 0
    /\ lpc' = "drop"
    /\ UNCHANGED stg_db
    /\ UNCHANGED <<syncVars, inferVars, mainVars, hashVars>>

\* create_table: metadata.drop_all(self.engine, checkfirst=True)
DropAll ==
    /\ lpc = "drop"
    /\ stg_db' = [stg_db EXCEPT ![load.tbl] = drop_all(stg_db[load.tbl])]
    /\ load' = [load EXCEPT !.ddl =
                    IF stg_db'[load.tbl].exists # stg_db[load.tbl].exists
                    THEN Append(@, "drop") ELSE @]
    /\ lpc' = "create"
    /\ UNCHANGED <<txn_rows, start, nloads>>
    /\ UNCHANGED <<syncVars, inferVars, mainVars, hashVars>>

\* create_table: metadata.create_all(self.engine); then the branch on len(df)
CreateAll ==
    /\ lpc = "create"
    /\ stg_db' = [stg_db EXCEPT ![load.tbl] = create_all(stg_db[load.tbl])]
    /\ load' = [load EXCEPT !.ddl =
                    IF stg_db'[load.tbl].exists # stg_db[load.tbl].exists
                    THEN Append(@, "create") ELSE @,
                            !.path = load_path(load.n)]
    /\ txn_rows' = stg_db'[load.tbl].rows
    /\ start' = 0
    /\ lpc' = load_path(load.n)
    /\ UNCHANGED nloads
    /\ UNCHANGED <<syncVars, inferVars, mainVars, hashVars>>

\* one iteration of the batched loop
Batch ==
    /\ lpc = "batched"
    /\ start < load.n
    /\ txn_rows' = to_sql(txn_rows, nloads, start, load.n)
    /\ start' = start + batch_size
    /\ load' = [load EXCEPT !.chunks = @ + 1]
    /\ UNCHANGED <<stg_db, lpc, nloads>>
    /\ UNCHANGED <<syncVars, inferVars, mainVars, hashVars>>

\* transaction.commit() after the last batch
BatchCommit ==
    /\ lpc = "batched"
    /\ start >= load.n
    /\ stg_db' = [stg_db EXCEPT ![load.tbl].rows = txn_rows]
    /\ load' = [load EXCEPT !.res = "ok"]
    /\ txn_rows' = <<>>
    /\ lpc' = "idle"
    /\ UNCHANGED <<start, nloads>>
    /\ UNCHANGED <<syncVars, inferVars, mainVars, hashVars>>

\* connection.execute(text(bulk_insert_query)): the rows of the file
BulkInsert ==
    /\ lpc = "bulk"
    /\ txn_rows' = append_rows(txn_rows, nloads, load.n)
    /\ load' = [load EXCEPT !.bulk = @ + 1]
    /\ lpc' = "bulkcommit"
    /\ UNCHANGED <<stg_db, start, nloads>>
    /\ UNCHANGED <<syncVars, inferVars, mainVars, hashVars>>

\* connection.commit() after the bulk statement
BulkCommit ==
    /\ lpc = "bulkcommit"
    /\ stg_db' = [stg_db EXCEPT ![load.tbl].rows = txn_rows]
    /\ load' = [load EXCEPT !.res = "ok"]
    /\ txn_rows' = <<>>
    /\ lpc' = "idle"
    /\ UNCHANGED <<start, nloads>>
    /\ UNCHANGED <<syncVars, inferVars, mainVars, hashVars>>

\* connect(), the type inference, the drop or the create raises: the error
\* is logged and re-raised, no transaction is open
CreateFail ==
    /\ lpc \in {"drop", "create"}
    /\ load' = [load EXCEPT !.res = "raised"]
    /\ txn_rows' = <<>>
    /\ lpc' = "idle"
    /\ UNCHANGED <<stg_db, start, nloads>>
    /\ UNCHANGED <<syncVars, inferVars, mainVars, hashVars>>

\* a batch, the bulk statement or the commit raises: rollback and re-raise
LoadFail ==
    /\ lpc \in {"batched", "bulk", "bulkcommit"}
    /\ stg_db' = [stg_db EXCEPT ![load.tbl].rows =
                      transaction_rollback(stg_db[load.tbl].rows, txn_rows)]
    /\ load' = [load EXCEPT !.res = "raised"]
    /\ txn_rows' = <<>>
    /\ lpc' = "idle"
    /\ UNCHANGED <<start, nloads>>
    /\ UNCHANGED <<syncVars, inferVars, mainVars, hashVars>>

NextLoad ==
    \/ \E t \in StgNames, n \in DfLens : BeginLoad(t, n)
    \/ DropAll
    \/ CreateAll
    \/ Batch
    \/ BatchCommit
    \/ BulkInsert
    \/ BulkCommit
    \/ CreateFail
    \/ LoadFail

SpecLoad == Init /\ [][NextLoad]_vars

(***************************************************************************)
(* Properties of the load (SpecLoad).                                      *)
(***************************************************************************)
\* the number of rows of a table that were written by a given load
RECURSIVE RowsOfLoad(_, _)
RowsOfLoad(rows, id) ==
    IF rows = <<>> THEN 0
    ELSE (IF Head(rows).load = id THEN Head(rows).n ELSE 0) + RowsOfLoad(Tail(rows), id)

\* the number of batches of a DataFrame of n rows
NumBatches(n) == (n + 9999) \div 10000

\* the committed destination table of the last insert_data call
Destination == stg_db[load.tbl]

\* C8: in the batched path, when a batch fails (the last one included, after
\* the batches before it succeeded) the transaction is rolled back, the error
\* is raised and no row of the load is committed; rows of the load are
\* committed only by the commit that follows the last batch.
C8_BatchedAtomicity ==
    load.path = "batched" =>
        /\ load.res \in {"running", "raised"} =>
               \A t \in StgNames : RowsOfLoad(stg_db[t].rows, nloads) = 0
        /\ load.res = "ok" =>
               /\ load.chunks = NumBatches(load.n)
               /\ RowsOfLoad(Destination.rows, nloads) = load.n
        /\ lpc = "idle" => load.res \in {"ok", "raised"}

\* the last of the 100 batches of a load of 999,999 rows has failed
C8_Witness ==
    /\ load.path = "batched"
    /\ load.n = 999999
    /\ load.chunks = 99
    /\ start = 990000
    /\ load.res = "raised"
    /\ lpc = "idle"
    /\ Destination.exists
    /\ Destination.rows = <<>>

\* C9: insert_data takes the batched path iff len(df) < 1,000,000 and the
\* bulk path iff len(df) >= 1,000,000, and exactly one of the two runs
\* (999,999 rows: batched; 1,000,000 rows: bulk).
C9_LoadPathBoundary ==
    /\ load.path # "none" =>
           /\ load.path = "batched" <=> load.n < 1000000
           /\ load.path = "bulk" <=> load.n >= 1000000
    /\ load.path # "batched" => load.chunks = 0
    /\ load.path # "bulk" => load.bulk = 0
    /\ ( load.res = "ok" /\ load.n = 999999 ) =>
           ( load.path = "batched" /\ load.chunks = 100 /\ load.bulk = 0 )
    /\ ( load.res = "ok" /\ load.n = 1000000 ) =>
           ( load.path = "bulk" /\ load.bulk = 1 /\ load.chunks = 0 )
    /\ lpc \in {"batched"} => load.path = "batched"
    /\ lpc \in {"bulk", "bulkcommit"} => load.path = "bulk"

\* a load of exactly 1,000,000 rows has gone through the bulk path
C9_Witness ==
    /\ load.n = 1000000
    /\ load.res = "ok"
    /\ load.path = "bulk"
    /\ load.bulk = 1
    /\ RowsOfLoad(Destination.rows, nloads) = 1000000

\* s is an initial part of t
IsPrefix(s, t) == Len(s) <= Len(t) /\ SubSeq(t, 1, Len(s)) = s

\* C10 as stated: insert_data never removes the rows that were in the
\* destination table before the call; after a successful load the table
\* holds the prior rows plus the loaded rows, after a failed load the prior
\* rows.
C10_AppendSemantics ==
    nloads > 0 =>
        /\ IsPrefix(load.pre.rows, Destination.rows)
        /\ load.res = "ok" =>
               /\ RowsOfLoad(Destination.rows, nloads) = load.n
               /\ Len(Destination.rows) = Len(load.pre.rows) + (IF load.n = 0 THEN 0 ELSE 1)
        /\ load.res = "raised" => Destination.rows = load.pre.rows

\* C10 amended: create_table drops the destination table when it exists and
\* creates it empty.  After a successful load the table holds exactly the
\* loaded rows; after a call that raised before any DDL the table is as it
\* was; after a call that raised later the table holds no row (it is absent
\* when the create did not run, empty otherwise).
C10_DropAndReload ==
    nloads > 0 =>
        /\ load.res = "ok" =>
               /\ Destination.exists
               /\ Destination.rows =
                      (IF load.n = 0 THEN <<>> ELSE << [load |-> nloads, n |-> load.n] >>)
        /\ ( load.res = "raised" /\ load.ddl = <<>> ) => Destination = load.pre
        /\ ( load.res = "raised" /\ load.ddl # <<>> ) =>
               /\ Destination.rows = <<>>
               /\ Destination.exists <=> load.ddl[Len(load.ddl)] = "create"
        /\ ( load.pre.exists /\ lpc \notin {"idle", "drop"} ) =>
               /\ load.ddl # <<>>
               /\ load.ddl[1] = "drop"
               /\ \A k \in 1..Len(Destination.rows) : Destination.rows[k].load = nloads

\* a successful load into a table that held the rows of an earlier load
C10_Witness ==
    /\ nloads = 2
    /\ load.res = "ok"
    /\ load.n > 0
    /\ load.pre.exists
    /\ load.pre.rows # <<>>
    /\ load.ddl = <<"drop", "create">>
    /\ Destination.rows = << [load |-> 2, n |-> load.n] >>

\* C11 as stated: a second create_table for a table that a first call has
\* created performs no DDL (no drop, no create), and the table exists.
C11_SecondCallNoDDL ==
    ( load.path # "none" /\ load.pre.exists ) =>
        ( load.ddl = <<>> /\ Destination.exists )

\* C11 amended: create_table creates the table when it is absent, and drops
\* and creates it anew when it exists, so that a second call for the same
\* table performs two DDL statements; the table exists after either call.
C11_DropThenCreate ==
    load.path # "none" =>
        /\ Destination.exists
        /\ load.ddl = (IF load.pre.exists THEN <<"drop", "create">> ELSE <<"create">>)

\* create_table has returned for a table that an earlier call had created
C11_Witness ==
    /\ nloads = 2
    /\ load.path # "none"
    /\ load.pre.exists
    /\ load.ddl = <<"drop", "create">>
    /\ Destination.exists

(***************************************************************************)
(* Provisioning of the warehouse table.                                    *)
(***************************************************************************)
\* the calls before call k in which ensure_dwh_table returned for the
\* warehouse table of call k
EnsuredBefore(k) ==
    { j \in 1..(k - 1) :
        log[j].ensured /\ dwh_table_name(log[j].tbl) = dwh_table_name(log[k].tbl) }

\* the calls of ensure_dwh_table that returned for staging table t
EnsuredFor(t) == { k \in 1..Len(log) : log[k].ensured /\ log[k].tbl = t }

\* C12: ensure_dwh_table sends CREATE only when no table of that name
\* exists, and nothing when one exists, whatever its columns; over the calls
\* for one staging table CREATE is sent at most once (exactly once when no
\* other staging table has provided the warehouse table), and the table
\* exists, with the columns it was created with, after every call.
C12_CreateOnce ==
    /\ \A k \in 1..Len(log) :
          log[k].ensured =>
            /\ log[k].ddl = (IF EnsuredBefore(k) = {} THEN <<"create">> ELSE <<>>)
            /\ dwh[dwh_table_name(log[k].tbl)].exists
    /\ \A t \in StgNames :
          EnsuredFor(t) # {} =>
            /\ Cardinality({ k \in EnsuredFor(t) : log[k].ddl = <<"create">> }) <= 1
            /\ ( \A k \in 1..Len(log) : log[k].ensured => log[k].tbl = t )
                   => Cardinality({ k \in EnsuredFor(t) : log[k].ddl = <<"create">> }) = 1
    /\ \A d \in DwhNames :
          dwh[d].exists =>
            \E k \in 1..Len(log) :
                /\ log[k].ddl = <<"create">>
                /\ dwh[d].columns = log[k].tbl

\* two calls for the same staging table: the first created the table, the
\* second found it (with rows) and sent nothing
C12_Witness ==
    /\ Len(log) = 2
    /\ log[1].tbl = log[2].tbl
    /\ log[1].ensured /\ log[2].ensured
    /\ log[1].ddl = <<"create">>
    /\ log[2].ddl = <<>>
    /\ log[2].pre # <<>>
    /\ dwh[dwh_table_name(log[2].tbl)].exists

\* a call for a staging table whose warehouse table was created from another
\* staging table: no statement is sent and the columns are left as they were
C12_WitnessOtherColumns ==
    /\ Len(log) = 2
    /\ log[1].tbl # log[2].tbl
    /\ log[2].ensured
    /\ log[2].ddl = <<>>
    /\ dwh[dwh_table_name(log[2].tbl)].columns = log[1].tbl

(***************************************************************************)
(* Provenance of warehouse rows.                                           *)
(***************************************************************************)
\* the insert of process_table adds one row to the transaction
InsertStep == pc = "row" /\ pc' = "deactivate"

C17_Step ==
    InsertStep =>
        /\ curDwh = dwh_table_name(cur)
        /\ session_dwh'[Len(session_dwh')].RegionCode = region_code(cur)

\* C17 as stated: the warehouse table of staging table <region>_<entity> is
\* <entity>, and every row that process_table inserts from it carries
\* RegionCode = <region>, whether the warehouse table was created in this
\* run or existed before.
C17_RegionCodeProvenance == [][C17_Step]_vars

(***************************************************************************)
(* DatabaseImporter.infer_sql_type: the SQL type of one DataFrame column.  *)
(***************************************************************************)
\* longest column of the enumerated samples
MaxSeriesLen == 2

\* the width above which a string column is unbounded
max_width == 4000

\* 'MAX', the unbounded width: a value no call of roundup gives
MAX == -1

\* integer values on both sides of the two comparisons
IntValues == { -32769, -32768, -32767, -32766, 0, 32766, 32767, 32768 }

Digit == { "0", "1", "2", "3", "4", "5", "6", "7", "8", "9" }

\* a string value: the characters of `text` followed by `pad` letters x
Str(text, pad) == [text |-> text, pad |-> pad]

date_text == << "2", "0", "2", "4", "-", "0", "1", "-", "1", "5" >>

\* string values: short, of length 23, 4000 and 4001, a date, a date with a
\* character after it and with one before it, values of length 1, 4000 and
\* 4001 that begin with a code point above 127, and the empty string
StrValues ==
    { Str(<<"a", "b", "c">>, 0), Str(<<"a", "b", "c">>, 20),
      Str(<<"a", "b", "c">>, 3997), Str(<<"a", "b", "c">>, 3998),
      Str(date_text, 0), Str(date_text, 1), Str(<<"x">> \o date_text, 0),
      Str(<<"U+00E9">>, 0), Str(<<"U+00E9">>, 3999), Str(<<"U+00E9">>, 4000),
      Str(<<>>, 0) }

\* one-value string columns of every length from 1 to 4001
LengthSeries ==
    { [dtype |-> "object", values |-> << Str(<<"a">>, p) >>] : p \in 0..max_width }

\* the columns handed to infer_sql_type
SeriesValues ==
    { [dtype |-> "int64", values |-> v] : v \in SeqUpTo(IntValues, MaxSeriesLen) }
    \cup { [dtype |-> "float64", values |-> v] : v \in SeqUpTo({0, 32767}, 1) }
    \cup { [dtype |-> "bool", values |-> v] : v \in SeqUpTo({0, 1}, MaxSeriesLen) }
    \cup { [dtype |-> "datetime64", values |-> v] : v \in SeqUpTo({0}, 1) }
    \cup { [dtype |-> "object", values |-> v] : v \in SeqUpTo(StrValues, MaxSeriesLen) }
    \cup LengthSeries

\* series.max() and series.min() of a column with at least one value
series_max(v) == CHOOSE m \in Range(v) : \A x \in Range(v) : x <= m

series_min(v) == CHOOSE m \in Range(v) : \A x \in Range(v) : m <= x

\* pd.api.types.is_numeric_dtype: integers, floats and booleans
is_numeric_dtype(dtype) == dtype \in { "int64", "float64", "bool" }

\* the comparison taken over the signed 16-bit range
integer_16bit(v) ==
    /\ v # <<>>
    /\ series_max(v) <= 32767 /\ series_min(v) >= -32768

\* the comparison with its upper bound included
integer_upper_inclusive(v) ==
    /\ v # <<>>
    /\ series_max(v) <= 32767 /\ series_min(v) > -32767

\* series.max() < 32767 and series.min() > -32767; max() and min() of a
\* column without values are NaN and both comparisons are false
is_integer(v) ==
    /\ v # <<>>
    /\ series_max(v) < 32767 /\ series_min(v) > -32767

\* series.str.len()
str_len(x) == Len(x.text) + x.pad

\* rounding down to a multiple of 10
roundup_floor(x) == (x \div 10) * 10

\* math.ceil(x / 10.0) * 10
roundup(x) == ((x + 9) \div 10) * 10

\* 'MAX' if int(series.str.len().max()) > 4000 else self.roundup(...)
length_of(L) == IF L > max_width THEN MAX ELSE roundup(L)

\* re.search(r'^\d{4}-\d{2}-\d{2}', x): the pattern is anchored at the start
\* only, whatever follows the tenth character is not looked at
contains_date(x) ==
    /\ Len(x.text) >= 10
    /\ \A k \in {1, 2, 3, 4, 6, 7, 9, 10} : x.text[k] \in Digit
    /\ x.text[5] = "-" /\ x.text[8] = "-"

\* re.search(r'[^\x00-\x7F]', x)
contains_non_ascii(x) == \E k \in 1..Len(x.text) : x.text[k] = "U+00E9"

\* the longest value of a column with at least one value
max_len(v) == series_max([k \in 1..Len(v) |-> str_len(v[k])])

\* the branch of string columns; int(NaN) raises for a column without values
infer_string_type(v) ==
    IF v = <<>> THEN [kind |-> "raised"]
    ELSE LET length == length_of(max_len(v))
         IN  IF \A k \in 1..Len(v) : contains_date(v[k])
             THEN [kind |-> "DATE"]
             ELSE IF \E k \in 1..Len(v) : contains_non_ascii(v[k])
             THEN [kind |-> "NVARCHAR",
                   length |-> IF length # MAX THEN length + 10 ELSE length]
             ELSE [kind |-> "String", length |-> length]

\* the chain of dtype tests, in the order of the code: a bool column is
\* numeric, so the Boolean branch is never taken
infer_sql_type(s) ==
    IF s.dtype = "float64" THEN [kind |-> "DECIMAL", precision |-> 38, scale |-> 8]
    ELSE IF is_numeric_dtype(s.dtype)
    THEN (IF is_integer(s.values) THEN [kind |-> "Integer"] ELSE [kind |-> "BigInteger"])
    ELSE IF s.dtype = "datetime64" THEN [kind |-> "DateTime"]
    ELSE IF s.dtype = "object" THEN infer_string_type(s.values)
    ELSE IF s.dtype = "bool" THEN [kind |-> "Boolean"]
    ELSE [kind |-> "String", length |-> 255]

\* infer_data_types is called with a DataFrame whose column is s; the types
\* of the columns of a DataFrame are inferred one by one and independently
InferDataTypes(s) ==
    /\ ipc = "idle"
    /\ series' = s
    /\ sql_type' = NoType
    /\ ipc' = "infer"
    /\ UNCHANGED <<syncVars, loadVars, mainVars, hashVars>>

\* infer_sql_type returns the type of the column, or raises
InferSqlType ==
    /\ ipc = "infer"
    /\ sql_type' = infer_sql_type(series)
    /\ ipc' = "done"
    /\ UNCHANGED series
    /\ UNCHANGED <<syncVars, loadVars, mainVars, hashVars>>

NextInfer ==
    \/ \E s \in SeriesValues : InferDataTypes(s)
    \/ InferSqlType

SpecInfer == Init /\ [][NextInfer]_vars

\* infer_sql_type has returned for a column of integers
IntegerColumn == ipc = "done" /\ series.dtype = "int64"

\* C18: a column of integers with max 32766 and min -32766 is Integer; one
\* with max 32767 is BigInteger.
C18_NumericBoundary ==
    IntegerColumn =>
        /\ ( /\ 32766 \in Range(series.values)
             /\ -32766 \in Range(series.values)
             /\ \A x \in Range(series.values) : -32766 <= x /\ x <= 32766 )
               => sql_type = [kind |-> "Integer"]
        /\ ( /\ 32767 \in Range(series.values)
             /\ \A x \in Range(series.values) : x <= 32767 )
               => sql_type = [kind |-> "BigInteger"]

\* the column (32766, -32766) has been classified Integer
C18_Witness ==
    /\ IntegerColumn
    /\ series.values = << 32766, -32766 >>
    /\ sql_type = [kind |-> "Integer"]

\* the column (0, 32767) has been classified BigInteger
C18_WitnessBig ==
    /\ IntegerColumn
    /\ series.values = << 0, 32767 >>
    /\ sql_type = [kind |-> "BigInteger"]

\* C19 as stated: a column of integers is Integer if every value is in
\* -32768..32767, and BigInteger otherwise.
C19_Signed16Bit ==
    IntegerColumn =>
        sql_type = (IF \A x \in Range(series.values) : -32768 <= x /\ x <= 32767
                    THEN [kind |-> "Integer"] ELSE [kind |-> "BigInteger"])

\* C19 amended: a column of integers is Integer if it has a value and every
\* value is in -32766..32766, and BigInteger otherwise: 32767, -32767 and
\* -32768 make it BigInteger, and so does a column without values.
C19_OpenInterval ==
    IntegerColumn =>
        sql_type = (IF /\ series.values # <<>>
                       /\ \A x \in Range(series.values) : -32766 <= x /\ x <= 32766
                    THEN [kind |-> "Integer"] ELSE [kind |-> "BigInteger"])

\* a column whose values all fit 16 bits has been classified BigInteger
C19_Witness ==
    /\ IntegerColumn
    /\ series.values = << -32768, 32766 >>
    /\ sql_type = [kind |-> "BigInteger"]

\* infer_sql_type has returned for a column of strings with a value
StringColumn == ipc = "done" /\ series.dtype = "object" /\ series.values # <<>>

\* the multiple of 10 among L, L+1, ..., L+9
NextMultipleOf10(L) == CHOOSE w \in L..(L + 9) : w % 10 = 0

\* C20: for a column of strings whose longest value has length L the width
\* is unbounded if L > 4000 and otherwise L rounded up to the next multiple
\* of 10: 23 gives 30, 4000 gives 4000, 4001 gives unbounded, and for L in
\* 1..4000 the width is >= L, a multiple of 10 and < L + 10. It is the width
\* of a String column, and 10 less than the width of an NVARCHAR column.
C20_WidthRounding ==
    StringColumn =>
        LET L == max_len(series.values)
            width == IF sql_type.kind = "String" THEN sql_type.length
                     ELSE IF sql_type.length = MAX THEN MAX
                     ELSE sql_type.length - 10
        IN  /\ sql_type.kind \in { "String", "NVARCHAR", "DATE" }
            /\ sql_type.kind \in { "String", "NVARCHAR" } =>
                 /\ (width = MAX) = (L > 4000)
                 /\ L <= 4000 => width = NextMultipleOf10(L)
                 /\ L = 23 => width = 30
                 /\ L = 4000 => width = 4000
                 /\ L = 4001 => width = MAX
                 /\ L \in 1..4000 => ( width >= L /\ width % 10 = 0 /\ width < L + 10 )

\* a column whose longest value has 23 characters has got width 30
C20_Witness ==
    /\ StringColumn
    /\ max_len(series.values) = 23
    /\ sql_type = [kind |-> "String", length |-> 30]

\* 4000 characters: width 4000
C20_Witness4000 ==
    /\ StringColumn
    /\ max_len(series.values) = 4000
    /\ sql_type = [kind |-> "String", length |-> 4000]

\* 4001 characters: unbounded
C20_Witness4001 ==
    /\ StringColumn
    /\ max_len(series.values) = 4001
    /\ sql_type = [kind |-> "String", length |-> MAX]

(***************************************************************************)
(* CSVFileHandler: the files of the import directory that are ready.       *)
(***************************************************************************)
\* longest directory listing of the samples
MaxDirLen == 3

csv_suffix == << ".", "c", "s", "v" >>

complete_suffix == << ".", "c", "o", "m", "p", "l", "e", "t", "e" >>

date1 == << "2", "0", "2", "4", "0", "1", "0", "1" >>

\* f'{base}_{date}.csv' and f'{base}_{date}.complete'
csv_name(base, date) == base \o <<"_">> \o date \o csv_suffix

complete_name(base, date) == base \o <<"_">> \o date \o complete_suffix

\* where `$` can stand: at the end of the string, and before a newline that
\* ends it
match_end(f) ==
    IF f # <<>> /\ f[Len(f)] = "\n" THEN { Len(f) - 1, Len(f) } ELSE { Len(f) }

\* r'(.+)_(\d{8})\.csv$' matched from the start of f with `$` at position e:
\* a dot of the pattern stands for any character but a newline; the last 13
\* characters are fixed, so the groups are the same for every way to match
filename_pattern(f, e) ==
    /\ e >= 14
    /\ SubSeq(f, e - 3, e) = csv_suffix
    /\ \A k \in (e - 11)..(e - 4) : f[k] \in Digit
    /\ f[e - 12] = "_"
    /\ \A k \in 1..(e - 13) : f[k] # "\n"

\* re.match(self.filename_pattern, file_path)
re_match(f) == \E e \in match_end(f) : filename_pattern(f, e)

match_at(f) == CHOOSE e \in match_end(f) : filename_pattern(f, e)

\* match.group(1) and match.group(2)
group1(f) == SubSeq(f, 1, match_at(f) - 13)

group2(f) == SubSeq(f, match_at(f) - 11, match_at(f) - 4)

\* os.path.exists(os.path.join(self.directory_path, name))
path_exists(dir, name) == \E k \in 1..Len(dir) : dir[k] = name

\* CSVFileHandler._is_valid_file
is_valid_file(dir, f) ==
    /\ re_match(f)
    /\ path_exists(dir, complete_name(group1(f), group2(f)))

RECURSIVE list_eligible_files(_, _)
\* [f for f in os.listdir(dir)[k..] if self._is_valid_file(f)]
list_eligible_files(dir, k) ==
    IF k > Len(dir) THEN <<>>
    ELSE (IF is_valid_file(dir, dir[k]) THEN << dir[k] >> ELSE <<>>)
         \o list_eligible_files(dir, k + 1)

\* directory entries: data files and markers of the tables a, b and a_b,
\* names that miss the pattern by one character, a data file whose name ends
\* with a newline, and the Archive subdirectory
DirEntries ==
    { csv_name(<<"a">>, date1), complete_name(<<"a">>, date1),
      csv_name(<<"b">>, date1), complete_name(<<"b">>, date1),
      csv_name(<<"a", "_", "b">>, date1), complete_name(<<"a", "_", "b">>, date1),
      csv_name(<<>>, date1),
      csv_name(<<"a">>, SubSeq(date1, 1, 7)),
      csv_name(<<"a">>, date1 \o <<"1">>),
      <<"a", "_">> \o date1 \o << ".", "C", "S", "V" >>,
      <<"a", "_">> \o date1 \o << "x", "c", "s", "v" >>,
      csv_name(<<"a">>, date1) \o << ".", "b", "a", "k" >>,
      csv_name(<<"a">>, date1) \o << "\n" >>,
      << "A", "r", "c", "h", "i", "v", "e" >> }

\* the listings os.listdir can give: no entry twice, in any order
DirListings ==
    { d \in SeqUpTo(DirEntries, MaxDirLen) : IsInjective(d) }

\* files are put into the import directory before the first run
Deliver(d) ==
    /\ mpc = "idle"
    /\ nruns = 0
    /\ directory = <<>>
    /\ d # <<>>
    /\ directory' = d
    /\ UNCHANGED <<archive_dir, eligible_files, fi, mpc, staged, loads, failures,
                   nruns, mainResult, migrations>>
    /\ UNCHANGED <<syncVars, loadVars, inferVars, hashVars>>

\* a call of CSVFileHandler.list_eligible_files
ListEligibleFiles ==
    /\ mpc = "idle"
    /\ eligible_files' = list_eligible_files(directory, 1)
    /\ mpc' = "listed"
    /\ UNCHANGED <<directory, archive_dir, fi, staged, loads, failures, nruns,
                   mainResult, migrations>>
    /\ UNCHANGED <<syncVars, loadVars, inferVars, hashVars>>

NextList ==
    \/ \E d \in DirListings : Deliver(d)
    \/ ListEligibleFiles

SpecList == Init /\ [][NextList]_vars

\* f is <name>_<8 digits>.csv with a name of at least one character
IsDataFileName(f) ==
    /\ Len(f) >= 14
    /\ SubSeq(f, Len(f) - 3, Len(f)) = csv_suffix
    /\ \A k \in (Len(f) - 11)..(Len(f) - 4) : f[k] \in Digit
    /\ f[Len(f) - 12] = "_"

\* <name>_<8 digits>.complete for the data file f
MarkerOf(f) == SubSeq(f, 1, Len(f) - 4) \o complete_suffix

\* f is a data file and its marker is in the directory
Ready(f) == IsDataFileName(f) /\ MarkerOf(f) \in Range(directory)

\* C16 as stated: list_eligible_files returns exactly the entries that match
\* <name>_<8 digits>.csv and have a marker <name>_<8 digits>.complete in the
\* directory, in listing order (the empty list when there is none).
C16_FileEligibility ==
    mpc = "listed" => eligible_files = SelectSeq(directory, Ready)

\* the entries whose name ends with a newline left aside
NoNewline(f) == f = <<>> \/ f[Len(f)] # "\n"

\* the same for the entries that do not end with a newline
EligibilityOfPlainNames ==
    mpc = "listed" =>
        SelectSeq(eligible_files, NoNewline) =
            SelectSeq(SelectSeq(directory, NoNewline), Ready)

(***************************************************************************)
(* main: load every ready file, archive it, then run the migration.        *)
(***************************************************************************)
\* runs of main over the same directory
MaxRuns == 2

\* the directories main is run over: one or two data files, with and
\* without their markers
MainListings ==
    LET A  == csv_name(<<"a">>, date1)
        Am == complete_name(<<"a">>, date1)
        B  == csv_name(<<"b">>, date1)
        Bm == complete_name(<<"b">>, date1)
    IN  { <<A, Am>>, <<A, Am, B, Bm>>, <<B, Bm, A>>, <<Am, B, A, Bm>> }

RECURSIVE replace_csv(_, _)
\* file_with_path.replace('.csv', '.complete'), from position k on
replace_csv(f, k) ==
    IF k > Len(f) THEN <<>>
    ELSE IF k + 3 <= Len(f) /\ SubSeq(f, k, k + 3) = csv_suffix
    THEN complete_suffix \o replace_csv(f, k + 4)
    ELSE << f[k] >> \o replace_csv(f, k + 1)

complete_file_path(f) == replace_csv(f, 1)

\* f'{base_name}.zip' with base_name = os.path.splitext(os.path.basename(f))[0]
zip_file_path(f) == SubSeq(f, 1, Len(f) - 4) \o << ".", "z", "i", "p" >>

\* the directory without the entry `name`
remove(dir, name) == SelectSeq(dir, LAMBDA x : x # name)

\* the file main is handling
file == eligible_files[fi]

\* the rows of table t replaced by those of file f (insert_data drops and
\* creates the table, then loads it)
insert_data(st, t, f) == { r \in st : r.table # t } \cup { [table |-> t, file |-> f] }

\* the error of a failed load not re-raised: main goes on to archive the file
main_after_raise_archive(stage) ==
    IF stage = "load"
    THEN [mpc |-> "zip", mainResult |-> "running"]
    ELSE [mpc |-> "idle", mainResult |-> "raised"]

\* main's except branch: log and re-raise, the run is over
main_after_raise(stage) == [mpc |-> "idle", mainResult |-> "raised"]

\* archive_file's except branch: the error is logged and not re-raised,
\* archive_file returns and main goes on with the next file
archive_after_error(i) == [mpc |-> "file", fi |-> i + 1, raised |-> FALSE]

\* main up to the for loop: list the ready files
MainBegin ==
    /\ mpc = "idle"
    /\ nruns < MaxRuns
    /\ nruns' = nruns + 1
    /\ eligible_files' = list_eligible_files(directory, 1)
    /\ fi' = 1
    /\ mainResult' = "running"
    /\ mpc' = "file"
    /\ UNCHANGED <<directory, archive_dir, staged, loads, failures, migrations>>
    /\ UNCHANGED <<syncVars, loadVars, inferVars, hashVars>>

\* parse_csv returns the table name and the DataFrame
ParseCsv ==
    /\ mpc = "file"
    /\ fi <= Len(eligible_files)
    /\ mpc' = "insert"
    /\ UNCHANGED <<directory, archive_dir, eligible_files, fi, staged, loads, failures,
                   nruns, mainResult, migrations>>
    /\ UNCHANGED <<syncVars, loadVars, inferVars, hashVars>>

\* parse_csv raises: it re-raises, and so does main
ParseRaise ==
    /\ mpc = "file"
    /\ fi <= Len(eligible_files)
    /\ failures' = Append(failures, [stage |-> "parse", file |-> file, raised |-> TRUE])
    /\ mpc' = main_after_raise("parse").mpc
    /\ mainResult' = main_after_raise("parse").mainResult
    /\ UNCHANGED <<directory, archive_dir, eligible_files, fi, staged, loads, nruns,
                   migrations>>
    /\ UNCHANGED <<syncVars, loadVars, inferVars, hashVars>>

\* insert_data returns: the load is committed; main makes sure the Archive
\* directory exists and calls archive_file
InsertData ==
    /\ mpc = "insert"
    /\ staged' = insert_data(staged, group1(file), file)
    /\ loads' = Append(loads, file)
    /\ mpc' = "zip"
    /\ UNCHANGED <<directory, archive_dir, eligible_files, fi, failures, nruns,
                   mainResult, migrations>>
    /\ UNCHANGED <<syncVars, loadVars, inferVars, hashVars>>

\* insert_data raises, before or after create_table has dropped the table;
\* nothing of this file is committed, main re-raises
InsertRaise(dropped) ==
    /\ mpc = "insert"
    /\ staged' = IF dropped THEN { r \in staged : r.table # group1(file) } ELSE staged
    /\ failures' = Append(failures, [stage |-> "load", file |-> file, raised |-> TRUE])
    /\ mpc' = main_after_raise("load").mpc
    /\ mainResult' = main_after_raise("load").mainResult
    /\ UNCHANGED <<directory, archive_dir, eligible_files, fi, loads, nruns, migrations>>
    /\ UNCHANGED <<syncVars, loadVars, inferVars, hashVars>>

\* archive_file: the data file is written into the zip archive
ArchiveZip ==
    /\ mpc = "zip"
    /\ archive_dir' = archive_dir \cup { zip_file_path(file) }
    /\ mpc' = "remove"
    /\ UNCHANGED <<directory, eligible_files, fi, staged, loads, failures, nruns,
                   mainResult, migrations>>
    /\ UNCHANGED <<syncVars, loadVars, inferVars, hashVars>>

\* archive_file: os.remove(csv_file_path)
ArchiveRemove ==
    /\ mpc = "remove"
    /\ directory' = remove(directory, file)
    /\ mpc' = "move"
    /\ UNCHANGED <<archive_dir, eligible_files, fi, staged, loads, failures, nruns,
                   mainResult, migrations>>
    /\ UNCHANGED <<syncVars, loadVars, inferVars, hashVars>>

\* archive_file: shutil.move(complete_file_path, archive_dir_path), which
\* needs the marker under that name and no entry of that name in Archive;
\* archive_file returns and the loop goes on
ArchiveMove ==
    /\ mpc = "move"
    /\ path_exists(directory, complete_file_path(file))
    /\ complete_file_path(file) \notin archive_dir
    /\ directory' = remove(directory, complete_file_path(file))
    /\ archive_dir' = archive_dir \cup { complete_file_path(file) }
    /\ fi' = fi + 1
    /\ mpc' = "file"
    /\ UNCHANGED <<eligible_files, staged, loads, failures, nruns, mainResult, migrations>>
    /\ UNCHANGED <<syncVars, loadVars, inferVars, hashVars>>

\* a step of archive_file raises (the zip file may have been created when
\* the writing fails): the except branch of archive_file
ArchiveFail(partial) ==
    /\ mpc \in { "zip", "remove", "move" }
    /\ archive_dir' = IF mpc = "zip" /\ partial
                      THEN archive_dir \cup { zip_file_path(file) }
                      ELSE archive_dir
    /\ failures' = Append(failures, [stage |-> "archive", file |-> file,
                                     raised |-> archive_after_error(fi).raised])
    /\ fi' = archive_after_error(fi).fi
    /\ mpc' = archive_after_error(fi).mpc
    /\ UNCHANGED <<directory, eligible_files, staged, loads, nruns, mainResult, migrations>>
    /\ UNCHANGED <<syncVars, loadVars, inferVars, hashVars>>

\* after the last file: DataMigrator(...).run_migration() returns (its steps
\* are those of SpecSync)
MainMigrate ==
    /\ mpc = "file"
    /\ fi > Len(eligible_files)
    /\ migrations' = migrations + 1
    /\ mainResult' = "done"
    /\ mpc' = "idle"
    /\ UNCHANGED <<directory, archive_dir, eligible_files, fi, staged, loads, failures,
                   nruns>>
    /\ UNCHANGED <<syncVars, loadVars, inferVars, hashVars>>

\* run_migration raises: main re-raises
MainMigrateRaise ==
    /\ mpc = "file"
    /\ fi > Len(eligible_files)
    /\ migrations' = migrations + 1
    /\ failures' = Append(failures, [stage |-> "sync", file |-> <<>>, raised |-> TRUE])
    /\ mpc' = main_after_raise("sync").mpc
    /\ mainResult' = main_after_raise("sync").mainResult
    /\ UNCHANGED <<directory, archive_dir, eligible_files, fi, staged, loads, nruns>>
    /\ UNCHANGED <<syncVars, loadVars, inferVars, hashVars>>

NextMain ==
    \/ \E d \in MainListings : Deliver(d)
    \/ MainBegin
    \/ ParseCsv
    \/ ParseRaise
    \/ InsertData
    \/ \E dropped \in BOOLEAN : InsertRaise(dropped)
    \/ ArchiveZip
    \/ ArchiveRemove
    \/ ArchiveMove
    \/ \E partial \in BOOLEAN : ArchiveFail(partial)
    \/ MainMigrate
    \/ MainMigrateRaise

SpecMain == Init /\ [][NextMain]_vars

\* C13 as stated: no error is swallowed; the failure of any stage (parsing,
\* load, archival, synchronization) is re-raised to the caller of the stage,
\* that of archive_file to the caller of archive_file.
C13_NoErrorSwallowed ==
    \A k \in 1..Len(failures) : failures[k].raised

\* C14 as stated: over the runs of main on one directory, with archival
\* allowed to fail, no file whose load was committed is listed and loaded
\* again.
C14_AtMostOnceLoad == IsInjective(loads)

\* archive_file is running
Archiving == mpc \in { "zip", "remove", "move" }

C15_Step ==
    /\ ( mpc = "insert" /\ loads' = loads ) =>
           /\ directory' = directory
           /\ archive_dir' = archive_dir
           /\ mpc' = "idle"
           /\ mainResult' = "raised"
    /\ Archiving => ( staged' = staged /\ loads' = loads )

\* C15: archive_file runs for a file only after insert_data has returned
\* for it, its load committed; when insert_data raises, the file and its
\* marker stay as they are and the run ends; and no step of archive_file,
\* failing or not, changes what the loads have committed.
C15_ArchiveAfterLoad ==
    /\ [](Archiving =>
            /\ loads # <<>>
            /\ loads[Len(loads)] = file
            /\ [table |-> group1(file), file |-> file] \in staged)
    /\ [](\A k \in 1..Len(failures) :
            failures[k].stage = "archive" => failures[k].file \in Range(loads))
    /\ [][C15_Step]_vars

\* archive_file has failed for a file whose load is committed: the rows of
\* the load are in the staging table
C15_Witness ==
    /\ failures # <<>>
    /\ failures[Len(failures)].stage = "archive"
    /\ failures[Len(failures)].file \in Range(loads)
    /\ \E r \in staged : r.file = failures[Len(failures)].file

\* insert_data has raised: the file and its marker are in the directory,
\* nothing is in the archive, the run is over
C15_WitnessLoadRaised ==
    /\ failures # <<>>
    /\ failures[Len(failures)].stage = "load"
    /\ mainResult = "raised"
    /\ path_exists(directory, failures[Len(failures)].file)
    /\ path_exists(directory, complete_file_path(failures[Len(failures)].file))
    /\ archive_dir = {}

(***************************************************************************)
(* Date columns.                                                           *)
(***************************************************************************)
\* x is YYYY-MM-DD and nothing else
IsFullDate(x) ==
    /\ str_len(x) = 10
    /\ x.pad = 0
    /\ \A k \in {1, 2, 3, 4, 6, 7, 9, 10} : x.text[k] \in Digit
    /\ x.text[5] = "-" /\ x.text[8] = "-"

\* C21 as stated: a column of strings is DATE if and only if every value is
\* YYYY-MM-DD and nothing else; a column with a value that has characters
\* before or after the date is a string type.
C21_DateIffFullMatch ==
    StringColumn =>
        ( sql_type.kind = "DATE" ) =
            ( \A k \in 1..Len(series.values) : IsFullDate(series.values[k]) )

(***************************************************************************)
(* DataMigrator.hash_row, called on its own.                               *)
(***************************************************************************)
\* calls of hash_row in one behaviour
MaxHashCalls == 3

\* rows that differ in the last column, in the order of their columns and
\* in where one column ends and the next begins
HashRowValues ==
    { <<"a", "b", "c">>, <<"a", "b", "d">>, <<"c", "b", "a">>,
      <<"ab", "c">>, <<"a", "bc">>, <<"abc">> }

\* a call of DataMigrator.hash_row(row)
HashRow(row) ==
    /\ Len(hash_calls) < MaxHashCalls
    /\ hash_calls' = Append(hash_calls, [row |-> row, hash |-> hash_row(row)])
    /\ UNCHANGED <<syncVars, loadVars, inferVars, mainVars>>

NextHash == \E row \in HashRowValues : HashRow(row)

SpecHash == Init /\ [][NextHash]_vars

C23_Step ==
    \A d \in DwhNames :
        \A k \in 1..Len(dwh[d].rows) :
            dwh[d].rows[k].IsActive = 0 =>
                /\ k <= Len(dwh'[d].rows)
                /\ dwh'[d].rows[k].ValidTo = dwh[d].rows[k].ValidTo

\* C23 as stated: a warehouse row that is inactive keeps its ValidTo through
\* every later process_table call; ValidTo is written once, when the row is
\* deactivated.
C23_ValidToWrittenOnce == [][C23_Step]_vars

(***************************************************************************)
(* The bulk path of insert_data.                                           *)
(***************************************************************************)
\* C24: a load of 1,000,000 rows or more takes the bulk path: no batch is
\* sent, one BULK INSERT statement is executed and the commit follows it;
\* when the statement or the commit fails the connection is rolled back,
\* insert_data raises and no row of the load is committed.
C24_BulkPath ==
    /\ ( load.path # "none" /\ load.n >= 1000000 ) => load.path = "bulk"
    /\ load.path = "bulk" =>
        /\ load.n >= 1000000
        /\ load.chunks = 0
        /\ load.bulk <= 1
        /\ load.res = "ok" =>
               /\ load.bulk = 1
               /\ RowsOfLoad(Destination.rows, nloads) = load.n
        /\ load.res \in {"running", "raised"} =>
               \A t \in StgNames : RowsOfLoad(stg_db[t].rows, nloads) = 0
        /\ lpc = "idle" => load.res \in {"ok", "raised"}

\* the commit after the bulk statement of a load of 1,000,000 rows has
\* failed: insert_data has raised and the table is empty
C24_Witness ==
    /\ load.path = "bulk"
    /\ load.n = 1000000
    /\ load.bulk = 1
    /\ load.res = "raised"
    /\ lpc = "idle"
    /\ Destination.exists
    /\ Destination.rows = <<>>

\* the bulk statement itself has failed
C24_WitnessStatement ==
    /\ load.path = "bulk"
    /\ load.bulk = 0
    /\ load.res = "raised"
    /\ Destination.rows = <<>>

(***************************************************************************)
(* What a committing call leaves active.                                   *)
(***************************************************************************)
\* the commit of the running process_table call
CommitStep == pc = "row" /\ pc' = "loop"

\* the hashes of the staging rows of the running call
StagedHashes == { hash_row(stg_rows[k]) : k \in 1..Len(stg_rows) }

C25_Step ==
    CommitStep =>
        LET new == dwh'[curDwh].rows
            pre == LastCall.pre
        IN  /\ Len(new) > Len(pre) =>
                  \A k \in ActiveRows(new) : new[k].RowHash = new[Len(new)].RowHash
            /\ ( pre = <<>> /\ Cardinality(StagedHashes) >= 2 ) =>
                  /\ ActiveRows(new) = { Len(new) }
                  /\ \A k \in 1..(Len(new) - 1) : new[k].IsActive = 0
                  /\ Cardinality(StagedHashes) = Len(stg_rows) =>
                        /\ Len(new) = Len(stg_rows)
                        /\ new[Len(new)].cols = stg_rows[Len(stg_rows)]

RepeatsLastCall ==
    /\ Len(log) >= 2
    /\ log[Len(log) - 1].tbl = LastCall.tbl
    /\ log[Len(log) - 1].res = "ok"
    /\ log[Len(log) - 1].staged = Range(stg_rows)

C26_Step ==
    ( CommitStep /\ RepeatsLastCall ) =>
        /\ ( dwh'[curDwh].rows = LastCall.pre ) = ( Cardinality(StagedHashes) <= 1 )
        /\ Cardinality(StagedHashes) >= 2 =>
               Len(dwh'[curDwh].rows) > Len(LastCall.pre)

\* C26: a committed process_table call that repeats the call before it on an
\* unchanged staging table leaves the warehouse table as it was if and only
\* if the staging rows all have one hash (or there is none); with two or
\* more hashes every repeated call inserts a row, so the row count grows at
\* each call.
C26_RepeatedCall == [][C26_Step]_vars

\* a repeated call on two rows of different hashes has committed: the table
\* has grown
C26_Witness ==
    /\ pc = "loop"
    /\ Len(log) >= 2
    /\ LastCall.res = "ok"
    /\ log[Len(log) - 1].res = "ok"
    /\ log[Len(log) - 1].tbl = LastCall.tbl
    /\ log[Len(log) - 1].staged = LastCall.staged
    /\ Cardinality(LastCall.staged) = 2
    /\ Len(Committed(LastCall.tbl)) > Len(LastCall.pre)

\* a repeated call on one row has committed: the table is as it was
C26_WitnessFixpoint ==
    /\ pc = "loop"
    /\ Len(log) >= 2
    /\ LastCall.res = "ok"
    /\ log[Len(log) - 1].res = "ok"
    /\ log[Len(log) - 1].tbl = LastCall.tbl
    /\ log[Len(log) - 1].staged = LastCall.staged
    /\ Cardinality(LastCall.staged) = 1
    /\ Committed(LastCall.tbl) = LastCall.pre
    /\ LastCall.pre # <<>>

(***************************************************************************)
(* Staging tables of one entity.                                           *)
(***************************************************************************)
\* the call after call j on the same warehouse table
NextCallOn(j) ==
    CHOOSE m \in (j + 1)..Len(log) :
        /\ dwh_table_name(log[m].tbl) = dwh_table_name(log[j].tbl)
        /\ \A n \in (j + 1)..(m - 1) :
               dwh_table_name(log[n].tbl) # dwh_table_name(log[j].tbl)

\* the positions of the warehouse rows inserted from staging table t by the
\* calls before the running one: rows are appended, so those of call j lie
\* between the table as call j found it and as the next call found it
InsertedFrom(t) ==
    UNION { (Len(log[j].pre) + 1)..Len(log[NextCallOn(j)].pre) :
              j \in { i \in 1..(Len(log) - 1) :
                        /\ log[i].tbl = t
                        /\ dwh_table_name(t) = dwh_table_name(LastCall.tbl) } }

C27_Step ==
    CommitStep =>
        \A t \in StgNames \ { cur } :
            /\ dwh_table_name(t) = <<"E">> /\ dwh_table_name(cur) = <<"E">>
            /\ Len(dwh'[curDwh].rows) > Len(LastCall.pre) =>
                   \A k \in InsertedFrom(t) : dwh'[curDwh].rows[k].IsActive = 0

\* C27: R1_E and R2_E both resolve to the warehouse table E, and a
\* process_table call for one of them that inserts a row (its hash was not
\* active) leaves inactive every warehouse row inserted from the other: the
\* deactivation looks at the hash only, not at the region or the source.
C27_SharedWarehouseTable == [][C27_Step]_vars

\* the row inserted from R1_E was active when the call for R2_E began, and
\* is inactive after it has inserted its own row
C27_Witness ==
    /\ pc = "loop"
    /\ Len(log) = 2
    /\ log[1].tbl = <<"R", "1", "_", "E">> /\ log[1].res = "ok"
    /\ log[2].tbl = <<"R", "2", "_", "E">> /\ log[2].res = "ok"
    /\ Len(log[2].pre) = 1
    /\ log[2].pre[1].IsActive = 1
    /\ Len(dwh[<<"E">>].rows) = 2
    /\ dwh[<<"E">>].rows[1].IsActive = 0
    /\ dwh[<<"E">>].rows[2].IsActive = 1

(***************************************************************************)
(* The rows of the warehouse are kept.                                     *)
(***************************************************************************)
\* the rows of `old` are in `new` at their positions, with their staging
\* columns, RegionCode, RowHash and ValidFrom, and none is active again
HistoryKept(old, new) ==
    /\ Len(old) <= Len(new)
    /\ \A k \in 1..Len(old) :
          /\ new[k].cols = old[k].cols
          /\ new[k].RegionCode = old[k].RegionCode
          /\ new[k].RowHash = old[k].RowHash
          /\ new[k].ValidFrom = old[k].ValidFrom
          /\ old[k].IsActive = 0 => new[k].IsActive = 0

C28_Step ==
    /\ \A d \in DwhNames : HistoryKept(dwh[d].rows, dwh'[d].rows)
    /\ ( pc \in {"row", "deactivate"} /\ pc' \in {"row", "deactivate"} ) =>
           HistoryKept(session_dwh, session_dwh')

\* C28: no warehouse row is ever deleted (the committed row count never
\* decreases), a row keeps its staging columns, RowHash and ValidFrom; only
\* IsActive and ValidTo are modified later, and IsActive never goes from 0
\* back to 1. The same holds statement by statement inside a call.
C28_HistoryKept == [][C28_Step]_vars

\* a committed call has deactivated a row and added one
C28_Witness ==
    /\ pc = "loop"
    /\ log # <<>>
    /\ LastCall.res = "ok"
    /\ LastCall.pre # <<>>
    /\ LastCall.pre[1].IsActive = 1
    /\ Len(Committed(LastCall.tbl)) > Len(LastCall.pre)
    /\ Committed(LastCall.tbl)[1].IsActive = 0
    /\ Committed(LastCall.tbl)[1].ValidFrom = LastCall.pre[1].ValidFrom
    /\ Committed(LastCall.tbl)[1].cols = LastCall.pre[1].cols

(***************************************************************************)
(* Rows of different values and one concatenation.                         *)
(***************************************************************************)
\* staging rows whose string forms concatenate to 'abc'
CollidingRowValues == { <<"ab", "c">>, <<"a", "bc">> }

\* process_table and run_migration over staging tables that hold such rows
NextCollide ==
    \/ \E listing \in Listings : RunMigration(listing)
    \/ BeginTable
    \/ \E rows \in SeqUpTo(CollidingRowValues, MaxStgRows) : Fetch(rows)
    \/ RowUnchanged
    \/ RowInsert
    \/ RowDeactivate
    \/ Commit
    \/ EnsureFail
    \/ Fail
    \/ RunDone

SpecCollide == Init /\ [][NextCollide]_vars

RECURSIVE Concatenation(_)
\* the string forms of the values of a row, one after the other
Concatenation(row) ==
    IF row = <<>> THEN "" ELSE row[1] \o Concatenation(SubSeq(row, 2, Len(row)))

\* an active row of the transaction has the concatenation of the staging
\* row at the head of the loop
ActiveSameConcatenation ==
    \E k \in 1..Len(session_dwh) :
        /\ session_dwh[k].IsActive = 1
        /\ Concatenation(session_dwh[k].cols) = Concatenation(stg_rows[ri])

C29_Step ==
    ( pc = "row" /\ ri <= Len(stg_rows) /\ ActiveSameConcatenation /\ pc' # "idle" ) =>
        /\ session_dwh' = session_dwh
        /\ ri' = ri + 1
        /\ pc' = "row"

\* C29: the hash of a row depends on the concatenation of the string forms
\* of its values only: rows of different values and the same concatenation,
\* as ('ab','c') and ('a','bc'), have the same hash, and while a row of that
\* hash is active process_table takes the other for unchanged and inserts
\* nothing.
C29_ConcatenationCollision ==
    /\ [](\A j, k \in 1..Len(stg_rows) :
            Concatenation(stg_rows[j]) = Concatenation(stg_rows[k])
                => hash_row(stg_rows[j]) = hash_row(stg_rows[k]))
    /\ [](hash_row(<<"ab", "c">>) = hash_row(<<"a", "bc">>))
    /\ [][C29_Step]_vars

\* the warehouse holds ('ab','c'), active; a call whose staging table holds
\* ('a','bc') has committed and the warehouse is as it was
C29_Witness ==
    /\ pc = "loop"
    /\ log # <<>>
    /\ LastCall.res = "ok"
    /\ LastCall.staged = { <<"a", "bc">> }
    /\ Len(LastCall.pre) = 1
    /\ LastCall.pre[1].cols = <<"ab", "c">>
    /\ LastCall.pre[1].IsActive = 1
    /\ Committed(LastCall.tbl) = LastCall.pre

(***************************************************************************)
(* A failing table and the tables before it.                               *)
(***************************************************************************)
\* the step in which a process_table call raises and run_migration with it
RunRaises == pc # "idle" /\ pc' = "idle" /\ runResult' = "raised"

C30_Step ==
    RunRaises =>
        /\ dwh'[curDwh].rows = log'[Len(log')].pre
        /\ \A d \in DwhNames : dwh'[d] = dwh[d]
        /\ \A j \in (runStart + 1)..(Len(log') - 1) :
              /\ log'[j].res = "ok"
              /\ LET after == log'[j + 1].pre
                 IN  SubSeq(dwh'[dwh_table_name(log'[j].tbl)].rows, 1, Len(after)) = after

\* C30: when process_table raises on the i-th table of a run, what the
\* calls for the tables 1..i-1 committed stays committed and is not changed;
\* the transaction of the failing call alone is rolled back.
C30_NoRunLevelRollback == [][C30_Step]_vars

\* the second table of a run has raised inside its transaction after the
\* first had committed a row: the row is there
C30_Witness ==
    /\ pc = "idle"
    /\ runResult = "raised"
    /\ Len(log) = runStart + 2
    /\ log[Len(log) - 1].res = "ok"
    /\ Len(LastCall.pre) > Len(log[Len(log) - 1].pre)
    /\ LastCall.res = "raised"
    /\ LastCall.ensured
    /\ Committed(LastCall.tbl) = LastCall.pre

(***************************************************************************)
(* The order of main's stages.                                             *)
(***************************************************************************)
\* the step in which main calls run_migration
MigrationStarts == migrations' = migrations + 1

\* the step in which parse_csv or insert_data raises
ParseOrLoadRaises ==
    /\ Len(failures') = Len(failures) + 1
    /\ failures'[Len(failures')].stage \in { "parse", "load" }

\* the files loaded last, as many as the run has eligible files
LoadedLast ==
    SubSeq(loads, Len(loads) - Len(eligible_files) + 1, Len(loads))

C31_Step ==
    /\ MigrationStarts =>
           /\ mainResult = "running"
           /\ mpc = "file"
           /\ fi = Len(eligible_files) + 1
           /\ Len(loads) >= Len(eligible_files)
           /\ LoadedLast = eligible_files
    /\ loads' # loads =>
           /\ mpc = "insert"
           /\ loads' = Append(loads, eligible_files[fi])
    /\ ( fi' # fi /\ mpc # "idle" ) =>
           /\ Archiving
           /\ fi' = fi + 1
           /\ loads[Len(loads)] = eligible_files[fi]
    /\ ParseOrLoadRaises =>
           /\ mpc' = "idle"
           /\ mainResult' = "raised"
           /\ loads' = loads
           /\ migrations' = migrations
    /\ mpc = "idle" =>
           /\ loads' = loads
           /\ migrations' = migrations
           /\ mpc' # "idle" => ( mpc' = "file" /\ fi' = 1 /\ nruns' = nruns + 1 )

\* C31: main calls run_migration only after every eligible file of the run
\* has been loaded and archive_file has returned for it, the files being
\* taken one at a time in listing order; when parse_csv or insert_data
\* raises, the run ends there: no later file is loaded and run_migration is
\* not called in that run.
C31_PipelineOrder ==
    /\ [](migrations <= nruns)
    /\ [](mainResult = "raised" => mpc = "idle")
    /\ [][C31_Step]_vars

\* a run over two eligible files has loaded both, in listing order, one
\* archival having failed, and has run the migration
C31_Witness ==
    /\ mainResult = "done"
    /\ nruns = 1
    /\ migrations = 1
    /\ Len(eligible_files) = 2
    /\ loads = eligible_files
    /\ \E k \in 1..Len(failures) : failures[k].stage = "archive"

\* the load of the first of two eligible files has raised: the second was
\* not loaded and the migration was not run
C31_WitnessRaised ==
    /\ mainResult = "raised"
    /\ nruns = 1
    /\ Len(eligible_files) = 2
    /\ fi = 1
    /\ failures # <<>>
    /\ failures[Len(failures)].stage = "load"
    /\ loads = <<>>
    /\ migrations = 0
====
